---- MODULE Spec2Model ----
(***************************************************************************)
(* Model of src/src/ActivitiesPlanner.tsx: the plan store of the           *)
(* ActivitiesPlanner component (kids + assignment map, persisted by the    *)
(* plan effect) and the pure engines it calls: grade eligibility,          *)
(* financial aggregation and conflict detection over the ACTIVITIES        *)
(* catalog.                                                                *)
(*                                                                         *)
(* Text is modelled as a sequence of characters, each character a          *)
(* one-character string, so that the regular expressions of the source     *)
(* are computed character by character.  The en dash U+2013 is the         *)
(* character EnDash.                                                       *)
(***************************************************************************)
EXTENDS Integers, Sequences, FiniteSets, TLC

(***************************************************************************)
(* Characters and JavaScript string primitives                            *)
(***************************************************************************)
EnDash == "ndash"

UpperCase == <<"A","B","C","D","E","F","G","H","I","J","K","L","M",
               "N","O","P","Q","R","S","T","U","V","W","X","Y","Z">>
LowerCase == <<"a","b","c","d","e","f","g","h","i","j","k","l","m",
               "n","o","p","q","r","s","t","u","v","w","x","y","z">>
Digits == {"0","1","2","3","4","5","6","7","8","9"}

Range(s) == {s[i] : i \in 1..Len(s)}

SetMin(S) == CHOOSE m \in S : \A x \in S : m <= x

SetMax(S) == CHOOSE m \in S : \A x \in S : m >= x

\* String.prototype.toLowerCase on one character
ToLowerCase(c) ==
    IF c \in Range(UpperCase)
    THEN LowerCase[CHOOSE i \in 1..26 : UpperCase[i] = c]
    ELSE c

\* the regular expression class \w
IsWordChar(c) == c \in Range(UpperCase) \cup Range(LowerCase) \cup Digits \cup {"_"}

\* the white space String.prototype.trim removes
IsSpace(c) == c \in {" ", "\t", "\n"}

\* String.prototype.trim
Trim(s) ==
    LET keep == {i \in 1..Len(s) : ~IsSpace(s[i])}
    IN  IF keep = {} THEN <<>> ELSE SubSeq(s, SetMin(keep), SetMax(keep))

\* String.prototype.split on a separator that is one character of seps
RECURSIVE SplitFrom(_, _, _, _)
SplitFrom(s, seps, i, cur) ==
    IF i > Len(s) THEN <<cur>>
    ELSE IF s[i] \in seps THEN <<cur>> \o SplitFrom(s, seps, i + 1, <<>>)
    ELSE SplitFrom(s, seps, i + 1, Append(cur, s[i]))

SplitChars(s, seps) == SplitFrom(s, seps, 1, <<>>)

(***************************************************************************)
(* JavaScript values of a rank computation: a number, undefined, NaN or    *)
(* Infinity                                                                *)
(***************************************************************************)
Num(n) == [k |-> "number", n |-> n]
Undefined == [k |-> "undefined", n |-> 0]
NaN == [k |-> "NaN", n |-> 0]
Infinity == [k |-> "Infinity", n |-> 0]

\* a === b
StrictEq(a, b) == a.k # "NaN" /\ a = b

\* a <= b after ToNumber (undefined converts to NaN, every comparison with NaN is false)
LessEq(a, b) ==
    IF a.k \in {"undefined", "NaN"} \/ b.k \in {"undefined", "NaN"} THEN FALSE
    ELSE IF b.k = "Infinity" THEN TRUE
    ELSE IF a.k = "Infinity" THEN FALSE
    ELSE a.n <= b.n

\* the first value in place of the least
MathMin_First(vals) == IF vals = <<>> THEN Infinity ELSE vals[1]

\* Math.min(...vals)
MathMin(vals) ==
    IF vals = <<>> THEN Infinity
    ELSE IF \E i \in 1..Len(vals) : vals[i].k \in {"undefined", "NaN"} THEN NaN
    ELSE IF \A i \in 1..Len(vals) : vals[i].k = "Infinity" THEN Infinity
    ELSE Num(SetMin({vals[i].n : i \in {j \in 1..Len(vals) : vals[j].k = "number"}}))

(***************************************************************************)
(* Grade eligibility                                                      *)
(***************************************************************************)
GradeLevels == << <<"I","3">>, <<"I","4">>, <<"I","5">>,
                  <<"1","s","t">>, <<"2","n","d">>, <<"3","r","d">>,
                  <<"4","t","h">>, <<"5","t","h">>, <<"6","t","h">> >>

\* a kid record of the older schema has no grade
NoGrade == <<>>

\* gradeOrder[g]; a key that is not a GradeLevel reads undefined
gradeOrder(g) ==
    IF \E i \in 1..9 : GradeLevels[i] = g
    THEN Num((CHOOSE i \in 1..9 : GradeLevels[i] = g) - 3)
    ELSE Undefined

\* null is the empty token
normalizeGradeToken(s) ==
    LET t == Trim(s)
    IN  IF Len(t) = 2 /\ ToLowerCase(t[1]) = "i" /\ t[2] \in {"3","4","5"}
        THEN <<"I", t[2]>>
        ELSE IF /\ Len(t) = 3
                /\ t[1] \in {"1","2","3","4","5","6"}
                /\ <<ToLowerCase(t[2]), ToLowerCase(t[3])>>
                       \in {<<"s","t">>, <<"n","d">>, <<"r","d">>, <<"t","h">>}
        THEN <<t[1], ToLowerCase(t[2]), ToLowerCase(t[3])>>
        ELSE <<>>

\* replace(/\(.*?\)/g, ''): from each "(" to the nearest ")" on the same line
RECURSIVE StripParentheticals(_, _)
StripParentheticals(s, i) ==
    IF i > Len(s) THEN <<>>
    ELSE LET close == {j \in (i + 1)..Len(s) : s[j] = ")"}
         IN  IF /\ s[i] = "("
                /\ close # {}
                /\ \A j \in (i + 1)..(SetMin(close) - 1) : s[j] # "\n"
             THEN StripParentheticals(s, SetMin(close) + 1)
             ELSE <<s[i]>> \o StripParentheticals(s, i + 1)

\* length of the match of /[,;&]|\band\b/i at position i, 0 when none
ClauseSepAt(s, i) ==
    IF s[i] \in {",", ";", "&"} THEN 1
    ELSE IF /\ i + 2 <= Len(s)
            /\ ToLowerCase(s[i]) = "a"
            /\ ToLowerCase(s[i + 1]) = "n"
            /\ ToLowerCase(s[i + 2]) = "d"
            /\ (i = 1 \/ ~IsWordChar(s[i - 1]))
            /\ (i + 2 = Len(s) \/ ~IsWordChar(s[i + 3]))
         THEN 3
         ELSE 0

\* split(/[,;&]|\band\b/i)
RECURSIVE SplitClauses(_, _, _)
SplitClauses(s, i, cur) ==
    IF i > Len(s) THEN <<cur>>
    ELSE IF ClauseSepAt(s, i) > 0
         THEN <<cur>> \o SplitClauses(s, i + ClauseSepAt(s, i), <<>>)
         ELSE SplitClauses(s, i + 1, Append(cur, s[i]))

NonEmpty(s) == s # <<>>

\* the clauses of a grade expression: parts of isKidEligibleFor
GradeParts(grades) ==
    LET clauses == SplitClauses(StripParentheticals(grades, 1), 1, <<>>)
    IN  SelectSeq([i \in 1..Len(clauses) |-> Trim(clauses[i])], NonEmpty)

\* split('/').map(normalizeGradeToken).filter(Boolean)
GradeAlts(s) ==
    LET alts == SplitChars(s, {"/"})
    IN  SelectSeq([i \in 1..Len(alts) |-> normalizeGradeToken(alts[i])], NonEmpty)

\* one iteration of the loop over parts: does this part return true
PartAdmits(part, kidVal) ==
    LET rangeSplit == SplitChars(part, {EnDash, "-"})
    IN  IF Len(rangeSplit) = 1
        THEN \E i \in 1..Len(GradeAlts(rangeSplit[1])) :
                 StrictEq(gradeOrder(GradeAlts(rangeSplit[1])[i]), kidVal)
        ELSE IF Len(rangeSplit) = 2
        THEN LET leftAlts == GradeAlts(rangeSplit[1])
                 rightTok == normalizeGradeToken(rangeSplit[2])
                 start == MathMin([i \in 1..Len(leftAlts) |-> gradeOrder(leftAlts[i])])
                 end == gradeOrder(rightTok)
             IN  /\ rightTok # <<>>
                 /\ LessEq(start, kidVal)
                 /\ LessEq(kidVal, end)
        ELSE FALSE

\* isKidEligibleFor that returns what the first part gives
isKidEligibleFor_FirstPart(activity, kid) ==
    LET parts == GradeParts(activity.grades)
        kidVal == gradeOrder(kid.grade)
    IN  IF Len(parts) = 0 THEN TRUE
        ELSE PartAdmits(parts[1], kidVal)

\* isKidEligibleFor without the default of the unspecified expression
isKidEligibleFor_NoDefault(activity, kid) ==
    LET parts == GradeParts(activity.grades)
        kidVal == gradeOrder(kid.grade)
    IN  \E i \in 1..Len(parts) : PartAdmits(parts[i], kidVal)

isKidEligibleFor(activity, kid) ==
    LET parts == GradeParts(activity.grades)
        kidVal == gradeOrder(kid.grade)
    IN  IF Len(parts) = 0 THEN TRUE
        ELSE \E i \in 1..Len(parts) : PartAdmits(parts[i], kidVal)

(***************************************************************************)
(* Time ranges                                                            *)
(***************************************************************************)
DigitVal(c) == CHOOSE n \in 0..9 : <<"0","1","2","3","4","5","6","7","8","9">>[n + 1] = c

IsDigit(s, i) == i >= 1 /\ i <= Len(s) /\ s[i] \in Digits

IsTimeSep(s, i) == i >= 1 /\ i <= Len(s) /\ s[i] \in {":", "h", "."}

\* /(\d{1,2})[:h\.](\d{2})/ matched at position i with an hour of n digits
TimeMatchAt(s, i, n) ==
    /\ \A d \in 0..(n - 1) : IsDigit(s, i + d)
    /\ IsTimeSep(s, i + n)
    /\ IsDigit(s, i + n + 1)
    /\ IsDigit(s, i + n + 2)

\* null is -1
parseMinutes(t) ==
    LET at == {i \in 1..Len(t) : TimeMatchAt(t, i, 2) \/ TimeMatchAt(t, i, 1)}
    IN  IF at = {} THEN -1
        ELSE LET i == SetMin(at)
                 n == IF TimeMatchAt(t, i, 2) THEN 2 ELSE 1
                 hh == IF n = 2 THEN 10 * DigitVal(t[i]) + DigitVal(t[i + 1]) ELSE DigitVal(t[i])
                 mm == 10 * DigitVal(t[i + n + 1]) + DigitVal(t[i + n + 2])
             IN  hh * 60 + mm

\* null is <<>>
parseTimeRange(range) ==
    IF range = <<>> THEN <<>>
    ELSE LET parts == SplitChars(range, {EnDash, "-"})
         IN  IF Len(parts) # 2 THEN <<>>
             ELSE LET a == parseMinutes(Trim(parts[1]))
                      b == parseMinutes(Trim(parts[2]))
                  IN  IF a = -1 \/ b = -1 THEN <<>> ELSE <<a, b>>

\* the left argument whatever the right
Max2_Left(a, b) == a

Max2(a, b) == IF a >= b THEN a ELSE b

Min2(a, b) == IF a <= b THEN a ELSE b

\* ranges that touch overlap
overlap_Closed(a, b) == Max2(a[1], b[1]) <= Min2(a[2], b[2])

overlap(a, b) == Max2(a[1], b[1]) < Min2(a[2], b[2])

(***************************************************************************)
(* The activities dataset                                                 *)
(***************************************************************************)
DAYS == <<"Monday", "Tuesday", "Wednesday", "Thursday", "Friday">>

SLOTS == <<"Midday", "Afternoon">>

\* the slot-wide time ranges listConflicts falls back to
T_12_30_14_40 == <<"1","2",":","3","0",EnDash,"1","4",":","4","0">>

T_16_30_18_00 == <<"1","6",":","3","0",EnDash,"1","8",":","0","0">>

\* the grade expressions of the catalog
G_I4_or_I5_to_2nd == <<"I","4","/","I","5",EnDash,"2","n","d">>

G_3rd_to_6th == <<"3","r","d",EnDash,"6","t","h">>

G_1st_to_2nd == <<"1","s","t",EnDash,"2","n","d">>

G_I4_or_I5_to_6th == <<"I","4","/","I","5",EnDash,"6","t","h">>

G_1st_to_6th == <<"1","s","t",EnDash,"6","t","h">>

G_I4_or_I5 == <<"I","4","/","I","5">>

G_I4_or_I5_G1_and_1st_to_3rd_G2 == <<"I","4","/","I","5"," ","(","G","1",")"," ","&"," ","1","s","t",EnDash,"3","r","d"," ","(","G","2",")">>

G_I3_to_I5 == <<"I","3",EnDash,"I","5">>

G_I4_to_6th == <<"I","4",EnDash,"6","t","h">>

G_I3_to_6th == <<"I","3",EnDash,"6","t","h">>

G_2nd_to_6th == <<"2","n","d",EnDash,"6","t","h">>

G_I4_or_I5_to_1st == <<"I","4","/","I","5",EnDash,"1","s","t">>

\* the time ranges of the catalog
T_12_30_13_30 == <<"1","2",":","3","0",EnDash,"1","3",":","3","0">>

T_16_30_17_45 == <<"1","6",":","3","0",EnDash,"1","7",":","4","5">>

T_16_30_17_30 == <<"1","6",":","3","0",EnDash,"1","7",":","3","0">>

\* an Activity record; an optional field that is absent is 0, "" or <<>>
Activity(id, day, slot, time, grades, price, period, materialsFee, materialsKey, bundleKey) ==
    [id |-> id, day |-> day, slot |-> slot, time |-> time, grades |-> grades,
     price |-> price, period |-> period, materialsFee |-> materialsFee,
     materialsKey |-> materialsKey, bundleKey |-> bundleKey]

ACTIVITIES == <<
    Activity("m_en_i4-2_mon", "Monday", "Midday", T_12_30_13_30, G_I4_or_I5_to_2nd, 58, "month", 40, "unicor-english", ""),
    Activity("m_theatre_3-6_mon", "Monday", "Midday", T_12_30_13_30, G_3rd_to_6th, 36, "month", 0, "", ""),
    Activity("m_en_3-6_tue", "Tuesday", "Midday", T_12_30_13_30, G_3rd_to_6th, 58, "month", 40, "unicor-english", ""),
    Activity("m_chess_1-2_tue", "Tuesday", "Midday", T_12_30_13_30, G_1st_to_2nd, 75, "term", 0, "", ""),
    Activity("m_rhythmic_tue", "Tuesday", "Midday", T_12_30_13_30, G_I4_or_I5_to_6th, 44, "month", 0, "", ""),
    Activity("m_taijitsu_g1_tue", "Tuesday", "Midday", T_12_30_13_30, G_3rd_to_6th, 28, "month", 0, "", ""),
    Activity("m_en_i4-2_wed", "Wednesday", "Midday", T_12_30_13_30, G_I4_or_I5_to_2nd, 58, "month", 40, "unicor-english", ""),
    Activity("m_chess_3-6_wed", "Wednesday", "Midday", T_12_30_13_30, G_3rd_to_6th, 75, "term", 0, "", ""),
    Activity("m_hiphop_wed", "Wednesday", "Midday", T_12_30_13_30, G_1st_to_6th, 28, "month", 0, "", ""),
    Activity("m_taijitsu_g2_wed", "Wednesday", "Midday", T_12_30_13_30, G_I4_or_I5, 28, "month", 0, "", ""),
    Activity("m_taijitsu_g3_wed", "Wednesday", "Midday", T_12_30_13_30, G_1st_to_2nd, 28, "month", 0, "", ""),
    Activity("m_art_thu", "Thursday", "Midday", T_12_30_13_30, G_I4_or_I5_G1_and_1st_to_3rd_G2, 78, "term", 12, "creative-art-materials", ""),
    Activity("m_en_3-6_thu", "Thursday", "Midday", T_12_30_13_30, G_3rd_to_6th, 58, "month", 40, "unicor-english", ""),
    Activity("m_robotics_thu", "Thursday", "Midday", T_12_30_13_30, G_1st_to_6th, 48, "month", 0, "", ""),
    Activity("m_rhythmic_thu", "Thursday", "Midday", T_12_30_13_30, G_I4_or_I5_to_6th, 44, "month", 0, "", ""),
    Activity("m_comic_fri", "Friday", "Midday", T_12_30_13_30, G_3rd_to_6th, 33, "month", 0, "", ""),
    Activity("m_theatre_tracart_fri", "Friday", "Midday", T_12_30_13_30, G_I4_or_I5_to_2nd, 36, "month", 0, "", ""),
    Activity("a_psy_mo", "Monday", "Afternoon", T_16_30_17_45, G_I3_to_I5, 75, "term", 0, "", "psychomotricity"),
    Activity("a_cooking_mo", "Monday", "Afternoon", T_16_30_17_45, G_1st_to_6th, 45, "month", 0, "", ""),
    Activity("a_futsal_mo", "Monday", "Afternoon", T_16_30_17_45, G_1st_to_6th, 75, "term", 0, "", ""),
    Activity("a_acogida_mo", "Monday", "Afternoon", T_16_30_17_30, G_I4_to_6th, 35, "month", 0, "", ""),
    Activity("a_swim_tu", "Tuesday", "Afternoon", T_16_30_17_45, G_I3_to_6th, 147, "term", 0, "", ""),
    Activity("a_padel_tu", "Tuesday", "Afternoon", T_16_30_17_45, G_1st_to_6th, 147, "term", 0, "", ""),
    Activity("a_basket_tu", "Tuesday", "Afternoon", T_16_30_17_45, G_1st_to_6th, 75, "term", 0, "", ""),
    Activity("a_french_tu", "Tuesday", "Afternoon", T_16_30_17_45, G_I4_or_I5_to_6th, 36, "month", 20, "unicor-french", ""),
    Activity("a_acogida_tu", "Tuesday", "Afternoon", T_16_30_17_30, G_I4_to_6th, 35, "month", 0, "", ""),
    Activity("a_yoga12_we", "Wednesday", "Afternoon", T_16_30_17_45, G_1st_to_2nd, 35, "month", 0, "", ""),
    Activity("a_dance_we", "Wednesday", "Afternoon", T_16_30_17_30, G_I4_or_I5_to_2nd, 75, "term", 0, "", ""),
    Activity("a_skate_we", "Wednesday", "Afternoon", T_16_30_17_45, G_1st_to_6th, 120, "term", 0, "", ""),
    Activity("a_beginskate_we", "Wednesday", "Afternoon", T_16_30_17_45, G_I4_or_I5_to_2nd, 75, "term", 0, "", ""),
    Activity("a_lettering_we", "Wednesday", "Afternoon", T_16_30_17_45, G_I4_or_I5_to_6th, 35, "month", 0, "", ""),
    Activity("a_acogida_we", "Wednesday", "Afternoon", T_16_30_17_30, G_I4_to_6th, 35, "month", 0, "", ""),
    Activity("a_psy_th", "Thursday", "Afternoon", T_16_30_17_45, G_I3_to_I5, 75, "term", 0, "", "psychomotricity"),
    Activity("a_yoga_i4i5_th", "Thursday", "Afternoon", T_16_30_17_45, G_I4_or_I5, 35, "month", 0, "", ""),
    Activity("a_sportsinit_th", "Thursday", "Afternoon", T_16_30_17_45, G_1st_to_2nd, 75, "term", 0, "", ""),
    Activity("a_tennis_th", "Thursday", "Afternoon", T_16_30_17_45, G_1st_to_6th, 35, "month", 0, "", ""),
    Activity("a_acogida_th", "Thursday", "Afternoon", T_16_30_17_30, G_I4_to_6th, 35, "month", 0, "", ""),
    Activity("a_ukulele_fr", "Friday", "Afternoon", T_16_30_17_45, G_2nd_to_6th, 45, "month", 0, "", ""),
    Activity("a_musicsense_fr", "Friday", "Afternoon", T_16_30_17_45, G_I4_or_I5_to_1st, 45, "month", 0, "", ""),
    Activity("a_fencing_fr", "Friday", "Afternoon", T_16_30_17_45, G_1st_to_6th, 38, "month", 0, "", ""),
    Activity("a_acogida_fr", "Friday", "Afternoon", T_16_30_17_30, G_I4_to_6th, 35, "month", 0, "", "")
>>

\* ACTIVITIES.find(a => a.id === actId): its index, 0 when there is none
FindActivity(actId) ==
    LET at == {i \in 1..Len(ACTIVITIES) : ACTIVITIES[i].id = actId}
    IN  IF at = {} THEN 0 ELSE SetMin(at)

(***************************************************************************)
(* Plan documents                                                         *)
(*                                                                         *)
(* kids is the list of Kid records, assignments the list of the entries    *)
(* of the Record<string, string[]> in property order.  shape is "plan"     *)
(* for an object with both properties; the other shapes are the JSON       *)
(* values an imported or stored text can parse to.                         *)
(***************************************************************************)
Kid(id, name, color, grade) == [id |-> id, name |-> name, color |-> color, grade |-> grade]

PlanState(kids, assignments) == [shape |-> "plan", kids |-> kids, assignments |-> assignments]

EmptyPlan == PlanState(<<>>, <<>>)

\* p.assignments[actId] || []
AssignedTo(assignments, actId) ==
    LET at == {i \in 1..Len(assignments) : assignments[i].id = actId}
    IN  IF at = {} THEN <<>> ELSE assignments[SetMin(at)].kids

\* { ...assignments, [actId]: next }: an own property keeps its place, a new one goes last
WithEntry(assignments, actId, next) ==
    IF \E i \in 1..Len(assignments) : assignments[i].id = actId
    THEN [i \in 1..Len(assignments) |->
             IF assignments[i].id = actId THEN [id |-> actId, kids |-> next] ELSE assignments[i]]
    ELSE Append(assignments, [id |-> actId, kids |-> next])

KidIds(p) == {p.kids[i].id : i \in 1..Len(p.kids)}

\* p.kids.find(k => k.id === kidId): its index, 0 when there is none
FindKid(p, kidId) ==
    LET at == {i \in 1..Len(p.kids) : p.kids[i].id = kidId}
    IN  IF at = {} THEN 0 ELSE SetMin(at)

RECURSIVE ConcatAll(_)
ConcatAll(ss) == IF ss = <<>> THEN <<>> ELSE Head(ss) \o ConcatAll(Tail(ss))

RECURSIVE SumSeq(_)
SumSeq(s) == IF s = <<>> THEN 0 ELSE Head(s) + SumSeq(Tail(s))

(***************************************************************************)
(* Pricing logic                                                          *)
(***************************************************************************)
\* the pairs with an entry whose id is not in the catalog taken for the first
\* activity of the catalog
RECURSIVE AssignmentPairs_NoSkip(_)
AssignmentPairs_NoSkip(assignments) ==
    IF assignments = <<>> THEN <<>>
    ELSE LET e == Head(assignments)
             a == IF FindActivity(e.id) = 0 THEN 1 ELSE FindActivity(e.id)
         IN  [i \in 1..Len(e.kids) |-> [act |-> ACTIVITIES[a], kidId |-> e.kids[i]]]
             \o AssignmentPairs_NoSkip(Tail(assignments))

\* the (activity, kidId) pairs of Object.entries(assignments) in iteration
\* order, entries whose id is not in the catalog skipped
RECURSIVE AssignmentPairs(_)
AssignmentPairs(assignments) ==
    IF assignments = <<>> THEN <<>>
    ELSE LET e == Head(assignments)
             a == FindActivity(e.id)
         IN  (IF a = 0 THEN <<>>
              ELSE [i \in 1..Len(e.kids) |-> [act |-> ACTIVITIES[a], kidId |-> e.kids[i]]])
             \o AssignmentPairs(Tail(assignments))

\* psychoCountByKid.get(kidId) || 0 after the bundle scan
psychoCountByKid(p, kidId) ==
    LET pairs == AssignmentPairs(p.assignments)
    IN  Cardinality({i \in 1..Len(pairs) :
            pairs[i].act.bundleKey = "psychomotricity" /\ pairs[i].kidId = kidId})

\* the price taken whole
DivideBy3_Whole(price) == price

\* price / 3; every term price of the catalog and both bundle prices are
\* multiples of 3, so the quotient is an integer the double holds exactly
DivideBy3(price) == price \div 3

\* the first pass charging the materials fee of every assignment
FirstPassStep_NoDedup(st, act, kidId, normalizeMonthly) ==
    IF kidId \notin DOMAIN st.perKid THEN st
    ELSE LET charge == act.materialsFee # 0 /\ act.materialsKey # ""
             s1 == IF charge
                   THEN [st EXCEPT !.perKid[kidId].materials = @ + act.materialsFee]
                   ELSE st
         IN  IF act.bundleKey = "psychomotricity" THEN s1
             ELSE IF act.period = "month"
             THEN [s1 EXCEPT !.perKid[kidId].monthly = @ + act.price]
             ELSE [s1 EXCEPT !.perKid[kidId].term = @ + act.price,
                             !.perKid[kidId].monthly =
                                 @ + (IF normalizeMonthly THEN act.price \div 3 ELSE 0)]

\* one iteration of the inner loop of the first pass on
\* st = [perKid, kidMaterialsKeys]
FirstPassStep(st, act, kidId, normalizeMonthly) ==
    IF kidId \notin DOMAIN st.perKid THEN st
    ELSE LET charge == /\ act.materialsFee # 0
                       /\ act.materialsKey # ""
                       /\ act.materialsKey \notin st.kidMaterialsKeys[kidId]
             s1 == IF charge
                   THEN [st EXCEPT !.kidMaterialsKeys[kidId] = @ \cup {act.materialsKey},
                                   !.perKid[kidId].materials = @ + act.materialsFee]
                   ELSE st
         IN  IF act.bundleKey = "psychomotricity" THEN s1
             ELSE IF act.period = "month"
             THEN [s1 EXCEPT !.perKid[kidId].monthly = @ + act.price]
             ELSE [s1 EXCEPT !.perKid[kidId].term = @ + act.price,
                             !.perKid[kidId].monthly =
                                 @ + (IF normalizeMonthly THEN DivideBy3(act.price) ELSE 0)]

RECURSIVE FirstPass(_, _, _)
FirstPass(st, pairs, normalizeMonthly) ==
    IF pairs = <<>> THEN st
    ELSE FirstPass(FirstPassStep(st, Head(pairs).act, Head(pairs).kidId, normalizeMonthly),
                   Tail(pairs), normalizeMonthly)

\* the bundle priced per selection
BundleTerm_PerDay(count) == 75 * count

\* the bundle price of count selections
BundleTerm(count) == IF count >= 2 THEN 135 ELSE 75

\* the second pass over plan.kids on the perKid map
RECURSIVE SecondPass(_, _, _, _)
SecondPass(perKid, kids, p, normalizeMonthly) ==
    IF kids = <<>> THEN perKid
    ELSE LET id == Head(kids).id
             count == psychoCountByKid(p, id)
             next == IF count = 0 THEN perKid
                     ELSE [perKid EXCEPT
                              ![id].term = @ + BundleTerm(count),
                              ![id].monthly = @ + (IF normalizeMonthly
                                                   THEN DivideBy3(BundleTerm(count)) ELSE 0)]
         IN  SecondPass(next, Tail(kids), p, normalizeMonthly)

\* the values of the first kid alone
MapValues_FirstOnly(perKid, kids) ==
    IF kids = <<>> THEN <<>> ELSE <<perKid[kids[1].id]>>

\* perKid.values(): a Map iterates in the order its keys were first set
MapValues(perKid, kids) ==
    LET firsts == SelectSeq([i \in 1..Len(kids) |-> i],
                            LAMBDA i : \A j \in 1..(i - 1) : kids[j].id # kids[i].id)
    IN  [n \in 1..Len(firsts) |-> perKid[kids[firsts[n]].id]]

computeFinancials(p, normalizeMonthly) ==
    LET init == [perKid |-> [id \in KidIds(p) |->
                                [monthly |-> 0, term |-> 0, monthItems |-> 0, materials |-> 0]],
                 kidMaterialsKeys |-> [id \in KidIds(p) |-> {}]]
        first == FirstPass(init, AssignmentPairs(p.assignments), normalizeMonthly)
        perKid == SecondPass(first.perKid, p.kids, p, normalizeMonthly)
    IN  [perKid |-> perKid,
         totalMonthly |-> SumSeq([i \in 1..Len(MapValues(perKid, p.kids)) |-> MapValues(perKid, p.kids)[i].monthly]),
         totalTerm |-> SumSeq([i \in 1..Len(MapValues(perKid, p.kids)) |-> MapValues(perKid, p.kids)[i].term]),
         totalMaterials |-> SumSeq([i \in 1..Len(MapValues(perKid, p.kids)) |-> MapValues(perKid, p.kids)[i].materials])]

(***************************************************************************)
(* Conflict detection                                                     *)
(***************************************************************************)
\* the filter without the test of the day
SelectedOn_AnyDay(activities, p, kidId, day, slot) ==
    LET Sel(a) == /\ a.slot = slot
                  /\ kidId \in Range(AssignedTo(p.assignments, a.id))
    IN  SelectSeq(activities, Sel)

\* ACTIVITIES.filter(...): the activities of day and slot the kid id is assigned to
SelectedOn(activities, p, kidId, day, slot) ==
    LET Sel(a) == /\ a.day = day
                  /\ a.slot = slot
                  /\ kidId \in Range(AssignedTo(p.assignments, a.id))
    IN  SelectSeq(activities, Sel)

Selected(p, kidId, day, slot) == SelectedOn(ACTIVITIES, p, kidId, day, slot)

\* A.time || (slot === "Midday" ? "12:30-14:40" : "16:30-18:00")
EffectiveTime(a, slot) ==
    IF a.time # <<>> THEN a.time
    ELSE IF slot = "Midday" THEN T_12_30_14_40 ELSE T_16_30_18_00

\* every pair a conflict
Crashes_Always(A, B, slot) == TRUE

\* a pair with a time that does not parse is no conflict
Crashes_OverlapOnly(A, B, slot) ==
    LET ra == parseTimeRange(EffectiveTime(A, slot))
        rb == parseTimeRange(EffectiveTime(B, slot))
    IN  ra # <<>> /\ rb # <<>> /\ overlap(ra, rb)

\* !ra || !rb || overlap(ra, rb)
Crashes(A, B, slot) ==
    LET ra == parseTimeRange(EffectiveTime(A, slot))
        rb == parseTimeRange(EffectiveTime(B, slot))
    IN  ra = <<>> \/ rb = <<>> \/ overlap(ra, rb)

\* the inner loop started at 0: every pair in both orders
CrashesOf_BothOrders(kid, day, slot, selected) ==
    ConcatAll([i \in 1..Len(selected) |->
        LET js == SelectSeq([j \in 1..Len(selected) |-> j],
                            LAMBDA j : j # i /\ Crashes(selected[i], selected[j], slot))
        IN  [n \in 1..Len(js) |->
                [kidId |-> kid.id, kidName |-> kid.name, day |-> day, slot |-> slot,
                 a |-> selected[i], b |-> selected[js[n]]]]])

\* the records pushed for one kid, day and slot: i < j in the order of selected
CrashesOf(kid, day, slot, selected) ==
    ConcatAll([i \in 1..Len(selected) |->
        LET js == SelectSeq([d \in 1..(Len(selected) - i) |-> i + d],
                            LAMBDA j : Crashes(selected[i], selected[j], slot))
        IN  [n \in 1..Len(js) |->
                [kidId |-> kid.id, kidName |-> kid.name, day |-> day, slot |-> slot,
                 a |-> selected[i], b |-> selected[js[n]]]]])

\* listConflicts reading the activities it filters from a list
listConflictsOn(activities, p) ==
    ConcatAll([k \in 1..Len(p.kids) |->
        ConcatAll([d \in 1..Len(DAYS) |->
            ConcatAll([s \in 1..Len(SLOTS) |->
                CrashesOf(p.kids[k], DAYS[d], SLOTS[s],
                          SelectedOn(activities, p, p.kids[k].id, DAYS[d], SLOTS[s]))])])])

listConflicts(p) == listConflictsOn(ACTIVITIES, p)

(***************************************************************************)
(* Local storage and interchange documents                                *)
(*                                                                         *)
(* A document is absent, a text that is not JSON, or a JSON text.  A JSON  *)
(* text is kept as the value it denotes: null, a string, an array, or an   *)
(* object whose members are in the order of the text; indent is the        *)
(* white space JSON.stringify was asked for, which JSON.parse skips.       *)
(*                                                                         *)
(* A value the program holds as its plan is a plan object (shape "plan"),  *)
(* null, or something that lacks kids, assignments or both.                *)
(***************************************************************************)
JNode(j, members, items, s, cs) ==
    [j |-> j, members |-> members, items |-> items, s |-> s, cs |-> cs]

JNull == JNode("null", <<>>, <<>>, "", <<>>)

\* a string literal: ids, keys and colors are strings, names and grades are
\* sequences of characters
JString(s) == JNode("string", <<>>, <<>>, s, <<>>)

JChars(cs) == JNode("string", <<>>, <<>>, "", cs)

JArray(items) == JNode("array", <<>>, items, "", <<>>)

JObject(members) == JNode("object", members, <<>>, "", <<>>)

JMember(key, val) == [key |-> key, val |-> val]

\* the place of the member of that key in an object, 0 when it has none;
\* of two members of one key JSON.parse keeps the later
MemberAt(node, key) ==
    LET at == {i \in 1..Len(node.members) : node.members[i].key = key}
    IN  IF node.j # "object" \/ at = {} THEN 0 ELSE SetMax(at)

JSONNull == [shape |-> "null", kids |-> <<>>, assignments |-> <<>>]

NonPlanObjects ==
    {[shape |-> sh, kids |-> <<>>, assignments |-> <<>>] :
        sh \in {"no-kids", "no-assignments", "no-kids-no-assignments"}}

\* a kid written without its grade
KidToJSON_NoGrade(k) ==
    JObject(<<JMember("id", JString(k.id)),
              JMember("name", JChars(k.name)),
              JMember("color", JString(k.color))>>)

\* JSON.stringify of a kid: a property that is undefined is left out
KidToJSON(k) ==
    JObject(<<JMember("id", JString(k.id)),
              JMember("name", JChars(k.name)),
              JMember("color", JString(k.color))>>
            \o (IF k.grade = NoGrade THEN <<>> ELSE <<JMember("grade", JChars(k.grade))>>))

\* JSON.stringify of the assignment map: its properties in their order
AssignmentsToJSON(assignments) ==
    JObject([i \in 1..Len(assignments) |->
        JMember(assignments[i].id,
                JArray([n \in 1..Len(assignments[i].kids) |-> JString(assignments[i].kids[n])]))])

ToJSON(value) ==
    IF value.shape = "null" THEN JNull
    ELSE JObject(
            (IF value.shape \in {"plan", "no-assignments"}
             THEN <<JMember("kids", JArray([i \in 1..Len(value.kids) |-> KidToJSON(value.kids[i])]))>>
             ELSE <<>>)
            \o (IF value.shape \in {"plan", "no-kids"}
                THEN <<JMember("assignments", AssignmentsToJSON(value.assignments))>>
                ELSE <<>>))

\* the kid record an object of the kids array parses to
KidFromJSON(node) ==
    Kid(IF MemberAt(node, "id") = 0 THEN "" ELSE node.members[MemberAt(node, "id")].val.s,
        IF MemberAt(node, "name") = 0 THEN <<>> ELSE node.members[MemberAt(node, "name")].val.cs,
        IF MemberAt(node, "color") = 0 THEN "" ELSE node.members[MemberAt(node, "color")].val.s,
        IF MemberAt(node, "grade") = 0 THEN NoGrade ELSE node.members[MemberAt(node, "grade")].val.cs)

\* the assignment map an object parses to: one property for each key, at
\* the place of the first member of that key, with the value of the last
AssignmentsFromJSON(node) ==
    LET firsts == SelectSeq([i \in 1..Len(node.members) |-> i],
                            LAMBDA i : \A j \in 1..(i - 1) :
                                           node.members[j].key # node.members[i].key)
    IN  [n \in 1..Len(firsts) |->
            LET key == node.members[firsts[n]].key
                arr == node.members[MemberAt(node, key)].val
            IN  [id |-> key, kids |-> [m \in 1..Len(arr.items) |-> arr.items[m].s]]]

FromJSON(node) ==
    IF node.j = "null" THEN JSONNull
    ELSE LET k == MemberAt(node, "kids")
             a == MemberAt(node, "assignments")
         IN  [shape |-> IF k # 0 /\ a # 0 THEN "plan"
                        ELSE IF k # 0 THEN "no-assignments"
                        ELSE IF a # 0 THEN "no-kids"
                        ELSE "no-kids-no-assignments",
              kids |-> IF k = 0 THEN <<>>
                       ELSE [i \in 1..Len(node.members[k].val.items) |->
                                KidFromJSON(node.members[k].val.items[i])],
              assignments |-> IF a = 0 THEN <<>>
                              ELSE AssignmentsFromJSON(node.members[a].val)]

NoDocument == [kind |-> "absent", indent |-> 0, json |-> JNull]

NotJSON == [kind |-> "text", indent |-> 0, json |-> JNull]

\* JSON.stringify(value)
JSONstringify(value) == [kind |-> "json", indent |-> 0, json |-> ToJSON(value)]

\* JSON.stringify(value, null, 2)
JSONstringifyIndented(value) == [kind |-> "json", indent |-> 2, json |-> ToJSON(value)]

\* JSON.parse throws on a text that is not JSON
JSONparseThrows(doc) == doc.kind # "json"

JSONparse(doc) == FromJSON(doc.json)

\* rendering reads plan.kids and Object.entries(plan.assignments): a value
\* without them throws a TypeError during render
RenderThrows(p) == p.shape # "plan"

\* loadState() || { kids: [], assignments: {} }
loadState(doc) ==
    IF doc.kind = "absent" \/ JSONparseThrows(doc) \/ JSONparse(doc) = JSONNull
    THEN EmptyPlan
    ELSE JSONparse(doc)

(***************************************************************************)
(* Bounds and input domains                                               *)
(***************************************************************************)
\* most entries of the assignment map of a session
MaxEntries == 2

\* the ids uid() draws from; a session has at most this many kids
KidIdPool == {"k1", "k2"}

\* the grades chosen in the kid form: I5 and 1st
FormGrades == {GradeLevels[3], GradeLevels[4]}

\* the names typed in the kid form
FormNames == {<<" ">>, <<" ", "A", "n", "a">>}

\* the colour of the kid form
FormColor == "#22c55e"

\* the activity ids toggleAssignment is called with: the two bundle
\* activities (I3-I5), one more of Monday afternoon (I4-6th), and an id that
\* is not in the catalog
ToggleIds == {"a_psy_mo", "a_psy_th", "a_acogida_mo", "zz_not_in_catalog"}

\* the plan documents of a session, imported or found in storage: one kid of
\* 3rd grade or of no grade, and one entry that may name the kid twice or
\* name an id that is not a kid
SessionKids ==
    {<<Kid("k1", <<"A", "n", "a">>, FormColor, g)>> : g \in {GradeLevels[6], NoGrade}}

SessionAssignments ==
    {<<[id |-> a, kids |-> l]>> :
        a \in {"a_psy_mo", "a_acogida_mo"}, l \in {<<"k1">>, <<"k1", "k1">>, <<"k2", "k1">>}}

SessionDocs ==
    {NotJSON, JSONstringify(JSONNull)} \cup {JSONstringify(v) : v \in NonPlanObjects}
    \cup {JSONstringify(PlanState(ks, as)) : ks \in SessionKids, as \in SessionAssignments}

\* documents of the older schema: two kids, one or both without a grade
OldSchemaDocs ==
    LET A == Kid("k1", <<"A", "n", "a">>, FormColor, NoGrade)
        B == Kid("k2", <<"B", "o">>, FormColor, GradeLevels[6])
    IN  {JSONstringify(PlanState(ks, as)) :
            ks \in {<<A, B>>, <<B, A>>, <<A, [B EXCEPT !.grade = NoGrade]>>},
            as \in {<<>>, <<[id |-> "a_acogida_mo", kids |-> <<"k2", "k1">>]>>}}

\* the plan documents a session can find in storage: kids with unique ids, a
\* kid of the older schema without a grade, lists without repetition, ids
\* that are no kid of the document and an activity id that is not in the
\* catalog
DocKidLists ==
    LET A == Kid("k1", <<"A", "n", "a">>, FormColor, GradeLevels[3])
        B == Kid("k2", <<"B", "o">>, FormColor, GradeLevels[6])
    IN  {<<>>, <<A>>, <<B>>, <<A, B>>, <<B, A>>, <<[A EXCEPT !.grade = NoGrade]>>}

DocLists == {<<"k1">>, <<"k2">>, <<"k2", "k1">>}

\* the two bundle activities, two activities sharing a materials key, a
\* per-term activity of Monday afternoon and an id that is not in the catalog
DocActs == {"a_psy_mo", "a_psy_th", "m_en_i4-2_mon", "m_en_i4-2_wed",
            "a_futsal_mo", "zz_not_in_catalog"}

DocEntries == {[id |-> a, kids |-> l] : a \in DocActs, l \in DocLists}

DocAssignments ==
    UNION {{as \in [1..n -> DocEntries] :
               \A i, j \in 1..n : i # j => as[i].id # as[j].id} : n \in 0..MaxEntries}

PlanDocs == {PlanState(ks, as) : ks \in DocKidLists, as \in DocAssignments}

(***************************************************************************)
(* The ActivitiesPlanner component                                        *)
(***************************************************************************)
VARIABLES
    plan,           \* the plan state of useState
    stored,         \* the document under LS_KEY in localStorage
    effectPending,  \* the plan changed and the plan effect has not run yet
    crashed,        \* a render threw: the component is unmounted
    lastOp,         \* the handler call being processed: its arguments and its outcome
    probe,          \* a call of a pure function on arguments of its own
    exported        \* the file the last export offered for download

vars == <<plan, stored, effectPending, crashed, lastOp, probe, exported>>

Op(op, act, kid, res, elig) == [op |-> op, act |-> act, kid |-> kid, res |-> res, elig |-> elig]

\* no call is being processed
Idle == Op("", "", "", "", "")

NoProbe == [fn |-> ""]

\* the component mounts on the document found in storage; the plan effect runs
\* after the first render
Mount(doc) ==
    /\ stored = doc
    /\ plan = loadState(doc)
    /\ crashed = RenderThrows(loadState(doc))
    /\ effectPending = ~RenderThrows(loadState(doc))
    /\ lastOp = Op("mount", "", "", "", "")
    /\ probe = NoProbe
    /\ exported = NoDocument

\* a handler runs while the component is mounted; React runs the plan effect
\* of a committed plan before it computes the next plan
Accepting == ~crashed /\ ~effectPending

\* every id in use in the plan
UsedIds(p) == KidIds(p) \cup UNION {Range(p.assignments[i].kids) : i \in 1..Len(p.assignments)}

\* uid(): seven random base-36 digits, an id that is in use nowhere
uid(p) == KidIdPool \ UsedIds(p)

AddKid(newKidName, newKidColor, newKidGrade, id) ==
    /\ Accepting
    /\ LET name == Trim(newKidName)
       IN  IF name = <<>>
           THEN /\ UNCHANGED <<plan, effectPending>>
                /\ lastOp' = Op("addKid", "", "", "ignored", "")
           ELSE /\ id \in uid(plan)
                /\ plan' = [plan EXCEPT !.kids = Append(@, Kid(id, name, newKidColor, newKidGrade))]
                /\ effectPending' = TRUE
                /\ lastOp' = Op("addKid", "", id, "added", "")
    /\ UNCHANGED <<stored, crashed, probe, exported>>

\* removeKid that forgets the assignment lists
RemoveKidFrom_KidsOnly(p, kidId) ==
    PlanState(SelectSeq(p.kids, LAMBDA k : k.id # kidId), p.assignments)

\* removeKid that filters the first entry of the assignment map alone
RemoveKidFrom_FirstEntry(p, kidId) ==
    PlanState(SelectSeq(p.kids, LAMBDA k : k.id # kidId),
              [i \in 1..Len(p.assignments) |->
                  IF i > 1 THEN p.assignments[i]
                  ELSE [id |-> p.assignments[i].id,
                        kids |-> SelectSeq(p.assignments[i].kids, LAMBDA id : id # kidId)]])

\* the updater of removeKid
RemoveKidFrom(p, kidId) ==
    PlanState(SelectSeq(p.kids, LAMBDA k : k.id # kidId),
              [i \in 1..Len(p.assignments) |->
                  [id |-> p.assignments[i].id,
                   kids |-> SelectSeq(p.assignments[i].kids, LAMBDA id : id # kidId)]])

RemoveKid(kidId) ==
    /\ Accepting
    /\ plan' = RemoveKidFrom(plan, kidId)
    /\ effectPending' = TRUE
    /\ lastOp' = Op("removeKid", "", kidId,
                    IF kidId \in UsedIds(plan) THEN "removed" ELSE "absent", "")
    /\ UNCHANGED <<stored, crashed, probe, exported>>

\* isKidEligibleFor(activity, kid) for every activity of the catalog and every
\* grade a kid record can hold, evaluated once
Eligibility ==
    [i \in 1..Len(ACTIVITIES) |->
        [g \in Range(GradeLevels) \cup {NoGrade} |->
            isKidEligibleFor(ACTIVITIES[i], [grade |-> g])]]

\* the eligibility test left out
NotEligible_Never(p, activityId, kidId) == FALSE

\* activity && kid && !isKidEligibleFor(activity, kid)
NotEligible(p, activityId, kidId) ==
    /\ FindActivity(activityId) # 0
    /\ FindKid(p, kidId) # 0
    /\ ~Eligibility[FindActivity(activityId)][p.kids[FindKid(p, kidId)].grade]

\* toggleAssignment that alerts and still assigns
ToggleIn_NoReject(p, activityId, kidId) ==
    LET current == AssignedTo(p.assignments, activityId)
        exists == kidId \in Range(current)
        next == IF exists THEN SelectSeq(current, LAMBDA id : id # kidId)
                ELSE Append(current, kidId)
    IN  [p EXCEPT !.assignments = WithEntry(@, activityId, next)]

\* toggleAssignment that tests eligibility before removing too
ToggleIn_CheckOnRemoval(p, activityId, kidId) ==
    LET current == AssignedTo(p.assignments, activityId)
        exists == kidId \in Range(current)
        next == IF exists THEN SelectSeq(current, LAMBDA id : id # kidId)
                ELSE Append(current, kidId)
    IN  IF NotEligible(p, activityId, kidId) THEN p
        ELSE [p EXCEPT !.assignments = WithEntry(@, activityId, next)]

\* toggleAssignment that looks for the kid in the first place of the list alone
ToggleIn_FirstOnly(p, activityId, kidId) ==
    LET current == AssignedTo(p.assignments, activityId)
        exists == current # <<>> /\ current[1] = kidId
        next == IF exists THEN SelectSeq(current, LAMBDA id : id # kidId)
                ELSE Append(current, kidId)
    IN  IF ~exists /\ NotEligible(p, activityId, kidId) THEN p
        ELSE [p EXCEPT !.assignments = WithEntry(@, activityId, next)]

\* the updater of toggleAssignment
ToggleIn(p, activityId, kidId) ==
    LET current == AssignedTo(p.assignments, activityId)
        exists == kidId \in Range(current)
        next == IF exists THEN SelectSeq(current, LAMBDA id : id # kidId)
                ELSE Append(current, kidId)
    IN  IF ~exists /\ NotEligible(p, activityId, kidId) THEN p
        ELSE [p EXCEPT !.assignments = WithEntry(@, activityId, next)]

\* the eligibility of the kid for the activity as the call finds it
EligNote(p, activityId, kidId) ==
    IF FindActivity(activityId) = 0 \/ FindKid(p, kidId) = 0 THEN "unknown"
    ELSE IF NotEligible(p, activityId, kidId) THEN "ineligible" ELSE "eligible"

\* toggleAssignment on a plan that keeps at most so many entries
ToggleAssignmentWithin(activityId, kidId, most) ==
    /\ Accepting
    /\ LET exists == kidId \in Range(AssignedTo(plan.assignments, activityId))
           rejected == ~exists /\ NotEligible(plan, activityId, kidId)
       IN  /\ Len(ToggleIn(plan, activityId, kidId).assignments) <= most
           /\ plan' = ToggleIn(plan, activityId, kidId)
           \* returning p itself is no state change: no render, no effect
           /\ effectPending' = ~rejected
           /\ lastOp' = Op("toggleAssignment", activityId, kidId,
                           IF rejected THEN "rejected"
                           ELSE IF exists THEN "unassigned" ELSE "assigned",
                           EligNote(plan, activityId, kidId))
    /\ UNCHANGED <<stored, crashed, probe, exported>>

ToggleAssignment(activityId, kidId) == ToggleAssignmentWithin(activityId, kidId, MaxEntries)

ClearAll(confirmed) ==
    /\ Accepting
    /\ IF confirmed
       THEN /\ plan' = EmptyPlan
            /\ effectPending' = TRUE
            /\ lastOp' = Op("clearAll", "", "", "cleared", "")
       ELSE /\ UNCHANGED <<plan, effectPending>>
            /\ lastOp' = Op("clearAll", "", "", "ignored", "")
    /\ UNCHANGED <<stored, crashed, probe, exported>>

\* the file exportPlan offers: the plan of the current render
ExportPlan ==
    /\ Accepting
    /\ exported' = JSONstringifyIndented(plan)
    /\ lastOp' = Op("exportPlan", "", "", "exported", "")
    /\ UNCHANGED <<plan, stored, effectPending, crashed, probe>>

\* reader.onload of importPlan
ImportPlan(file) ==
    /\ Accepting
    /\ IF JSONparseThrows(file)
       THEN /\ UNCHANGED <<plan, effectPending, crashed>>
            /\ lastOp' = Op("importPlan", "", "", "invalid", "")
       ELSE /\ plan' = JSONparse(file)
            /\ crashed' = RenderThrows(JSONparse(file))
            /\ effectPending' = ~RenderThrows(JSONparse(file))
            /\ lastOp' = Op("importPlan", "", "", "replaced", "")
    /\ UNCHANGED <<stored, probe, exported>>

\* no plan is migrated
needsMigration_Never(p) == FALSE

\* plan.kids.some(k => k.grade === undefined)
needsMigration(p) == \E i \in 1..Len(p.kids) : p.kids[i].grade = NoGrade

\* kids: p.kids.map(k => ({ ...k, grade: k.grade ?? '1st' }))
Migrated(p) ==
    [p EXCEPT !.kids = [i \in 1..Len(p.kids) |->
        IF p.kids[i].grade = NoGrade THEN [p.kids[i] EXCEPT !.grade = GradeLevels[4]]
        ELSE p.kids[i]]]

\* a save that writes the kids and forgets the assignment map
saveState_KidsOnly(state) == JSONstringify(PlanState(state.kids, <<>>))

\* localStorage.setItem(LS_KEY, JSON.stringify(state))
saveState(state) == JSONstringify(state)

\* the effect on [plan]: migrate, or save
PlanEffect ==
    /\ ~crashed
    /\ effectPending
    /\ IF needsMigration(plan)
       THEN /\ plan' = Migrated(plan)
            /\ UNCHANGED <<stored, effectPending, lastOp>>
       ELSE /\ stored' = saveState(plan)
            /\ effectPending' = FALSE
            /\ lastOp' = Idle
            /\ UNCHANGED plan
    /\ UNCHANGED <<crashed, probe, exported>>

(***************************************************************************)
(* Specifications                                                         *)
(***************************************************************************)
\* a session: the component mounts on any document and every handler that
\* sets the plan is called
Init == \E doc \in {NoDocument} \cup SessionDocs : Mount(doc)

Next ==
    \/ \E n \in FormNames, g \in FormGrades, id \in KidIdPool : AddKid(n, FormColor, g, id)
    \/ \E kidId \in KidIdPool : RemoveKid(kidId)
    \/ \E a \in ToggleIds, kidId \in KidIdPool : ToggleAssignment(a, kidId)
    \/ \E c \in BOOLEAN : ClearAll(c)
    \/ \E f \in SessionDocs : ImportPlan(f)
    \/ PlanEffect

Spec == Init /\ [][Next]_vars

\* from the empty plan: addKid, removeKid and toggleAssignment alone, with any
\* arguments
InitEmpty == Mount(NoDocument)

NextOps ==
    \/ \E n \in FormNames, g \in FormGrades, id \in KidIdPool : AddKid(n, FormColor, g, id)
    \/ \E kidId \in KidIdPool : RemoveKid(kidId)
    \/ \E a \in ToggleIds, kidId \in KidIdPool : ToggleAssignment(a, kidId)
    \/ PlanEffect

SpecOps == InitEmpty /\ [][NextOps]_vars

\* from the empty plan: addKid, removeKid and toggleAssignment alone,
\* toggleAssignment called with the ids of kids of the plan
NextCore ==
    \/ \E n \in FormNames, g \in FormGrades, id \in KidIdPool : AddKid(n, FormColor, g, id)
    \/ \E kidId \in KidIdPool : RemoveKid(kidId)
    \/ \E a \in ToggleIds, kidId \in KidIds(plan) : ToggleAssignment(a, kidId)
    \/ PlanEffect

SpecCore == InitEmpty /\ [][NextCore]_vars

\* the component mounts on any plan document; removeKid alone
InitDocs == \E doc \in PlanDocs : Mount(JSONstringify(doc))

NextDocs ==
    \/ \E kidId \in KidIdPool : RemoveKid(kidId)
    \/ PlanEffect

SpecDocs == InitDocs /\ [][NextDocs]_vars

\* the component mounts on any plan document and the plan effect runs
SpecMounted == InitDocs /\ [][PlanEffect]_vars

\* the component mounts on any document of a session; toggleAssignment alone
NextToggle ==
    \/ \E a \in ToggleIds, kidId \in KidIdPool : ToggleAssignment(a, kidId)
    \/ PlanEffect

SpecToggle == Init /\ [][NextToggle]_vars

\* from the empty plan: kids of one name are added and removed, two
\* activities are toggled, the plan is exported and the exported file imported
NextRoundTrip ==
    \/ \E id \in KidIdPool : AddKid(<<"A", "n", "a">>, FormColor, GradeLevels[3], id)
    \/ \E kidId \in KidIdPool : RemoveKid(kidId)
    \/ \E a \in {"a_psy_mo", "a_acogida_mo"}, kidId \in KidIdPool : ToggleAssignment(a, kidId)
    \/ ExportPlan
    \/ exported # NoDocument /\ ImportPlan(exported)
    \/ PlanEffect

SpecRoundTrip == InitEmpty /\ [][NextRoundTrip]_vars

\* from the empty plan: kids of the first grade are added and removed; three
\* activities of Wednesday midday and one of Monday midday are toggled for
\* one kid, two of Wednesday midday for the other
NextSlots ==
    \/ \E id \in KidIdPool : AddKid(<<"A", "n", "a">>, FormColor, GradeLevels[4], id)
    \/ \E kidId \in KidIdPool : RemoveKid(kidId)
    \/ \E t \in ({"m_en_i4-2_wed", "m_hiphop_wed", "m_taijitsu_g3_wed", "m_en_i4-2_mon"} \X {"k1"})
                   \cup ({"m_en_i4-2_wed", "m_hiphop_wed"} \X {"k2"}) :
          t[2] \in KidIds(plan) /\ ToggleAssignmentWithin(t[1], t[2], Len(ACTIVITIES))
    \/ PlanEffect

SpecSlots == InitEmpty /\ [][NextSlots]_vars

\* the component mounts on any document; files are imported and the plan is
\* cleared
InitImport == \E doc \in {NoDocument} \cup SessionDocs \cup OldSchemaDocs : Mount(doc)

NextImport ==
    \/ \E f \in SessionDocs \cup OldSchemaDocs : ImportPlan(f)
    \/ \E c \in BOOLEAN : ClearAll(c)
    \/ PlanEffect

SpecImport == InitImport /\ [][NextImport]_vars

\* React runs the effect of a committed render
FairImport == SpecImport /\ WF_vars(PlanEffect)

\* the component mounts on any document and every handler that sets the plan
\* is called: kids of one grade, two activities, documents of both schemas
NextSession ==
    \/ \E n \in FormNames, id \in KidIdPool : AddKid(n, FormColor, GradeLevels[3], id)
    \/ \E kidId \in KidIdPool : RemoveKid(kidId)
    \/ \E a \in {"a_psy_mo", "a_acogida_mo"}, kidId \in KidIdPool : ToggleAssignment(a, kidId)
    \/ \E c \in BOOLEAN : ClearAll(c)
    \/ \E f \in SessionDocs \cup OldSchemaDocs : ImportPlan(f)
    \/ PlanEffect

FairSession == InitImport /\ [][NextSession]_vars /\ WF_vars(PlanEffect)

(***************************************************************************)
(* isKidEligibleFor on written grade expressions                          *)
(***************************************************************************)
\* the most alternatives on the left of a range
MaxAlts == 2

\* the most pieces of an expression: clauses, or pieces without a grade token
MaxItems == 2

SwapCase(c) ==
    IF c \in Range(UpperCase)
    THEN LowerCase[CHOOSE i \in 1..26 : UpperCase[i] = c]
    ELSE IF c \in Range(LowerCase)
    THEN UpperCase[CHOOSE i \in 1..26 : LowerCase[i] = c]
    ELSE c

\* a grade token as the catalog writes it, or in the other letter case
Spell(level, style) ==
    IF style = "plain" THEN GradeLevels[level] ELSE [i \in 1..Len(GradeLevels[level]) |-> SwapCase(GradeLevels[level][i])]

RECURSIVE JoinWith(_, _)
JoinWith(strs, sep) ==
    IF strs = <<>> THEN <<>>
    ELSE IF Len(strs) = 1 THEN strs[1]
    ELSE strs[1] \o sep \o JoinWith(Tail(strs), sep)

\* the text LEFT dash RIGHT, LEFT being tokens separated by "/"
RangeText(left, right, dash, style) ==
    LET gap == IF style = "plain" THEN <<>> ELSE <<" ">>
    IN  JoinWith([i \in 1..Len(left) |-> Spell(left[i], style)], gap \o <<"/">> \o gap)
            \o gap \o <<dash>> \o gap \o Spell(right, style)

\* pieces that leave no clause: blanks, separators, parenthetical notes
BlankItems ==
    { <<" ">>, <<",">>, <<";">>, <<"&">>, <<" ","a","n","d"," ">>, <<"(","G","1",")">> }

\* pieces that make a clause without a grade token
TextItems ==
    { <<"x","y","z">>, <<"7","t","h">>, <<"I","6">>, <<"-">>, <<"/">> }

NoRange == [left |-> <<>>, right |-> 0, dash |-> "", style |-> ""]

\* an activity whose grades is one range clause, and a kid of a grade
RangeProbe(left, right, dash, style, level) ==
    [fn |-> "input", form |-> "range",
     range |-> [left |-> left, right |-> right, dash |-> dash, style |-> style],
     items |-> <<>>,
     activity |-> [grades |-> RangeText(left, right, dash, style)],
     kid |-> [grade |-> GradeLevels[level]],
     result |-> FALSE]

\* an activity whose grades holds no grade token, and a kid
UnspecifiedProbe(items, grade) ==
    [fn |-> "input", form |-> "unspecified",
     range |-> NoRange,
     items |-> items,
     activity |-> [grades |-> ConcatAll(items)],
     kid |-> [grade |-> grade],
     result |-> FALSE]

\* clauses as they are written, with the places in GradeLevels of the grades
\* each is written to admit: alternatives, ranges, a single grade, a token
\* that is no grade, a range whose end is no grade, a clause of two dashes
Clauses ==
    { [text |-> <<"I","4","/","I","5">>, admits |-> {2, 3}],
      [text |-> <<"1","s","t",EnDash,"3","r","d">>, admits |-> {4, 5, 6}],
      [text |-> <<"I","3"," ","-"," ","I","5">>, admits |-> {1, 2, 3}],
      [text |-> <<"5","t","h">>, admits |-> {8}],
      [text |-> <<"x","y","z">>, admits |-> {}],
      [text |-> <<"1","s","t",EnDash,"x","y","z">>, admits |-> {}],
      [text |-> <<"1","s","t",EnDash,"2","n","d",EnDash,"3","r","d">>, admits |-> {}] }

\* the separators of clauses
ClauseSeps ==
    { <<",">>, <<";", " ">>, <<" ", "&", " ">>, <<" ", "a", "n", "d", " ">>, <<" ", "A", "N", "D", " ">> }

\* an activity whose grades is several clauses, each followed by a
\* parenthetical note when noted, and a kid of a grade
ClauseProbe(clauses, sep, noted, grade) ==
    LET note == IF noted THEN <<" ", "(", "G", "1", ",", " ", "x", ")">> ELSE <<>>
    IN  [fn |-> "input", form |-> "clauses",
         range |-> NoRange,
         items |-> clauses,
         activity |-> [grades |-> JoinWith([i \in 1..Len(clauses) |-> clauses[i].text \o note], sep)],
         kid |-> [grade |-> grade],
         result |-> FALSE]

CheckEligibility ==
    /\ probe.fn = "input"
    /\ probe' = [probe EXCEPT !.fn = "isKidEligibleFor",
                              !.result = isKidEligibleFor(probe.activity, probe.kid)]
    /\ UNCHANGED <<plan, stored, effectPending, crashed, lastOp, exported>>

InitGrades ==
    /\ \/ \E left \in UNION {[1..n -> 1..9] : n \in 1..MaxAlts},
              right \in 1..9,
              dash \in {EnDash, "-"},
              style \in {"plain", "spaced"},
              level \in 1..9 :
                  probe = RangeProbe(left, right, dash, style, level)
       \/ \E items \in UNION {[1..n -> BlankItems \cup TextItems] : n \in 0..MaxItems},
              grade \in Range(GradeLevels) \cup {NoGrade} :
                  probe = UnspecifiedProbe(items, grade)
       \/ \E clauses \in UNION {[1..n -> Clauses] : n \in 2..MaxItems},
              sep \in ClauseSeps,
              noted \in BOOLEAN,
              grade \in Range(GradeLevels) \cup {NoGrade} :
                  probe = ClauseProbe(clauses, sep, noted, grade)
    /\ plan = EmptyPlan
    /\ stored = NoDocument
    /\ exported = NoDocument
    /\ effectPending = FALSE
    /\ crashed = FALSE
    /\ lastOp = Idle

NextGrades == CheckEligibility

SpecGrades == InitGrades /\ [][NextGrades]_vars

(***************************************************************************)
(* overlap and listConflicts on written time ranges                       *)
(***************************************************************************)
\* minutes of the day: 12:30, 13:30, 14:30
TimePoints == {750, 810, 870}

TwoDigits(n) ==
    LET D == <<"0","1","2","3","4","5","6","7","8","9">>
    IN  <<D[(n \div 10) + 1], D[(n % 10) + 1]>>

\* a time range as the catalog writes it, or with the other separators
\* parseMinutes and parseTimeRange accept
TimeRangeText(start, end, style) ==
    LET sep == IF style = "catalog" THEN ":" ELSE IF style = "dotted" THEN "." ELSE "h"
        dash == IF style = "catalog" THEN <<EnDash>>
                ELSE IF style = "dotted" THEN <<" ", "-", " ">> ELSE <<"-">>
        Clock(m) == TwoDigits(m \div 60) \o <<sep>> \o TwoDigits(m % 60)
    IN  Clock(start) \o dash \o Clock(end)

\* time fields: none, a range that parses, a text that does not
NoTime == [kind |-> "absent", text |-> <<>>, start |-> 0, end |-> 0]

RangeTimes ==
    {[kind |-> "range", text |-> TimeRangeText(r[1], r[2], style), start |-> r[1], end |-> r[2]] :
        r \in {<<750, 810>>, <<810, 870>>, <<750, 870>>, <<990, 1050>>},
        style \in {"catalog", "dotted", "hours"}}

MalformedTimes ==
    {[kind |-> "malformed", text |-> t, start |-> 0, end |-> 0] :
        t \in { <<"n","o","o","n">>,
                <<"1","2",":","3","0">>,
                <<"1","2",":","3","0","-">>,
                <<"1","2","3","0","-","1","3","3","0">>,
                <<"1","2",":","3","0","-","1","3",":","3","0","-","1","4",":","3","0">> }}

TimeFields == {NoTime} \cup RangeTimes \cup MalformedTimes

\* a list of activities: two of Monday in one slot and one of Tuesday
ProbeActivities(slot, timeX, timeY) ==
    <<Activity("x", "Monday", slot, timeX.text, <<>>, 10, "month", 0, "", ""),
      Activity("z", "Tuesday", slot, <<>>, <<>>, 10, "month", 0, "", ""),
      Activity("y", "Monday", slot, timeY.text, <<>>, 10, "month", 0, "", "")>>

\* one kid assigned to the three
ProbePlan ==
    PlanState(<<Kid("k1", <<"A", "n", "a">>, FormColor, GradeLevels[4])>>,
              <<[id |-> "y", kids |-> <<"k1">>],
                [id |-> "x", kids |-> <<"k1">>],
                [id |-> "z", kids |-> <<"k1">>]>>)

ConflictProbe(slot, timeX, timeY) ==
    [fn |-> "input", form |-> "conflicts", slot |-> slot, timeX |-> timeX, timeY |-> timeY,
     a |-> <<0, 0>>, b |-> <<0, 0>>, result |-> FALSE, swapped |-> FALSE, conflicts |-> <<>>]

OverlapProbe(a, b) ==
    [fn |-> "input", form |-> "overlap", slot |-> "", timeX |-> NoTime, timeY |-> NoTime,
     a |-> a, b |-> b, result |-> FALSE, swapped |-> FALSE, conflicts |-> <<>>]

CheckConflicts ==
    /\ probe.fn = "input"
    /\ probe.form = "conflicts"
    /\ probe' = [probe EXCEPT
                    !.fn = "listConflicts",
                    !.conflicts = listConflictsOn(
                        ProbeActivities(probe.slot, probe.timeX, probe.timeY), ProbePlan)]
    /\ UNCHANGED <<plan, stored, effectPending, crashed, lastOp, exported>>

CheckOverlap ==
    /\ probe.fn = "input"
    /\ probe.form = "overlap"
    /\ probe' = [probe EXCEPT !.fn = "overlap",
                              !.result = overlap(probe.a, probe.b),
                              !.swapped = overlap(probe.b, probe.a)]
    /\ UNCHANGED <<plan, stored, effectPending, crashed, lastOp, exported>>

InitTimes ==
    /\ \/ \E slot \in Range(SLOTS), timeX \in TimeFields, timeY \in TimeFields :
              probe = ConflictProbe(slot, timeX, timeY)
       \/ \E a \in TimePoints \X TimePoints, b \in TimePoints \X TimePoints :
              probe = OverlapProbe(a, b)
    /\ plan = EmptyPlan
    /\ stored = NoDocument
    /\ exported = NoDocument
    /\ effectPending = FALSE
    /\ crashed = FALSE
    /\ lastOp = Idle

NextTimes == CheckConflicts \/ CheckOverlap

SpecTimes == InitTimes /\ [][NextTimes]_vars

(***************************************************************************)
(* listConflicts on plans over the catalog                                *)
(***************************************************************************)
\* listConflicts(plan) of the current render
CheckListConflicts ==
    /\ probe.fn = "input"
    /\ probe' = [fn |-> "listConflicts", conflicts |-> listConflicts(plan)]
    /\ UNCHANGED <<plan, stored, effectPending, crashed, lastOp, exported>>

\* plans of one or two kids over three activities of Wednesday midday, two
\* of Wednesday afternoon and two of Monday afternoon, the entries of the
\* assignment map in the order of the catalog or in the opposite order
InitConflicts ==
    /\ \E kids \in {<<"k1">>, <<"k1", "k2">>, <<"k2", "k1">>},
          lists \in [1..7 -> {<<>>, <<"k1">>, <<"k2", "k1">>}],
          opposite \in BOOLEAN :
              LET ids == <<"m_en_i4-2_wed", "m_hiphop_wed", "m_taijitsu_g3_wed",
                           "a_cooking_mo", "a_futsal_mo", "a_skate_we", "a_lettering_we">>
              IN  plan = PlanState(
                      [i \in 1..Len(kids) |->
                          Kid(kids[i], <<"A", "n", "a">>, FormColor, GradeLevels[4])],
                      [i \in 1..7 |->
                          LET n == IF opposite THEN 8 - i ELSE i
                          IN  [id |-> ids[n], kids |-> lists[n]]])
    /\ probe = [fn |-> "input", conflicts |-> <<>>]
    /\ stored = NoDocument
    /\ exported = NoDocument
    /\ effectPending = FALSE
    /\ crashed = FALSE
    /\ lastOp = Idle

SpecConflicts == InitConflicts /\ [][CheckListConflicts]_vars

(***************************************************************************)
(* Properties                                                             *)
(***************************************************************************)
\* the kid ids of every assignment list
AssignedIds(p) == UNION {Range(p.assignments[i].kids) : i \in 1..Len(p.assignments)}

\* the catalog activities the kid id is assigned to
ActivitiesOf(p, kidId) ==
    {i \in 1..Len(ACTIVITIES) : kidId \in Range(AssignedTo(p.assignments, ACTIVITIES[i].id))}

RECURSIVE SumOfPrices(_)
SumOfPrices(acts) ==
    IF acts = {} THEN 0
    ELSE LET i == CHOOSE j \in acts : TRUE
         IN  ACTIVITIES[i].price + SumOfPrices(acts \ {i})

\* the fee the catalog asks for a materials key
FeeOfKey(key) ==
    ACTIVITIES[CHOOSE i \in 1..Len(ACTIVITIES) :
                   ACTIVITIES[i].materialsKey = key /\ ACTIVITIES[i].materialsFee # 0].materialsFee

RECURSIVE SumOfFees(_)
SumOfFees(keys) ==
    IF keys = {} THEN 0
    ELSE LET key == CHOOSE k \in keys : TRUE
         IN  FeeOfKey(key) + SumOfFees(keys \ {key})

\* C1: after removeKid(K) on any plan, K is in no assignment list and not in
\* the kids list, computeFinancials has no perKid entry for K and
\* listConflicts returns no record whose kidId is K
C1_RemovalCascade ==
    lastOp.op = "removeKid" =>
        LET K == lastOp.kid
            conflicts == listConflicts(plan)
        IN  /\ K \notin KidIds(plan)
            /\ K \notin AssignedIds(plan)
            /\ \A n \in BOOLEAN : K \notin DOMAIN computeFinancials(plan, n).perKid
            /\ \A i \in 1..Len(conflicts) : conflicts[i].kidId # K

\* a kid that was in use has been removed and the plan left still has
\* assignments, charges and a conflict
C1_Witness ==
    /\ lastOp.op = "removeKid"
    /\ lastOp.res = "removed"
    /\ AssignedIds(plan) # {}
    /\ Len(listConflicts(plan)) > 0
    /\ computeFinancials(plan, TRUE).totalTerm > 0

\* C2: from the empty plan, with toggleAssignment called for kids of the
\* plan, every kid id of every assignment list is the id of a kid of the
\* kids list
C2_ReferentialIntegrity == AssignedIds(plan) \subseteq KidIds(plan)

\* a kid has been removed while another kid stays assigned
C2_Witness ==
    /\ lastOp.op = "removeKid"
    /\ lastOp.res = "removed"
    /\ AssignedIds(plan) # {}
    /\ \E i \in 1..Len(plan.assignments) : plan.assignments[i].kids = <<>>

\* C3: from the empty plan, with toggleAssignment called for kids of the
\* plan, every kid of the assignment list of a catalog activity is eligible
\* for that activity
C3_EligibilityInvariant ==
    \A i \in 1..Len(plan.assignments) :
        LET a == FindActivity(plan.assignments[i].id)
        IN  a # 0 =>
                \A k \in Range(plan.assignments[i].kids) :
                    /\ FindKid(plan, k) # 0
                    /\ isKidEligibleFor(ACTIVITIES[a], plan.kids[FindKid(plan, k)])

\* a kid has been assigned to a bundle activity another kid of the plan is
\* not eligible for
C3_Witness ==
    /\ lastOp.op = "toggleAssignment"
    /\ lastOp.res = "assigned"
    /\ lastOp.act = "a_psy_mo"
    /\ \E i \in 1..Len(plan.kids) :
           ~isKidEligibleFor(ACTIVITIES[FindActivity("a_psy_mo")], plan.kids[i])

\* C4: toggleAssignment for a kid that is not assigned to the activity and
\* not eligible for it changes neither the kids list, nor an assignment list,
\* nor the persisted document, and schedules no save
C4_RejectedToggle ==
    [][\A a \in ToggleIds, k \in KidIdPool :
          ( /\ k \notin Range(AssignedTo(plan.assignments, a))
            /\ FindActivity(a) # 0
            /\ FindKid(plan, k) # 0
            /\ ~Eligibility[FindActivity(a)][plan.kids[FindKid(plan, k)].grade]
            /\ ToggleAssignment(a, k) )
          => /\ plan'.kids = plan.kids
             /\ plan'.assignments = plan.assignments
             /\ stored' = stored
             /\ effectPending' = effectPending]_vars

\* a call has been rejected
C4_Witness ==
    /\ lastOp.op = "toggleAssignment"
    /\ lastOp.res = "rejected"
    /\ lastOp.elig = "ineligible"

\* C5: toggleAssignment for a kid that is in the list of the activity removes
\* the kid from it, eligible or not, and changes neither the kids list nor
\* the list of another activity
C5_RemovalAlwaysPermitted ==
    [][\A a \in ToggleIds, k \in KidIdPool :
          (k \in Range(AssignedTo(plan.assignments, a)) /\ ToggleAssignment(a, k))
          => /\ k \notin Range(AssignedTo(plan'.assignments, a))
             /\ plan'.kids = plan.kids
             /\ \A i \in 1..Len(ACTIVITIES) :
                    ACTIVITIES[i].id # a =>
                        AssignedTo(plan'.assignments, ACTIVITIES[i].id)
                            = AssignedTo(plan.assignments, ACTIVITIES[i].id)
             /\ \A b \in ToggleIds \ {a} :
                    AssignedTo(plan'.assignments, b) = AssignedTo(plan.assignments, b)]_vars

\* a kid that is not eligible for the activity has been removed from its list
C5_Witness ==
    /\ lastOp.op = "toggleAssignment"
    /\ lastOp.res = "unassigned"
    /\ lastOp.elig = "ineligible"
    /\ lastOp.kid \notin Range(AssignedTo(plan.assignments, lastOp.act))

\* C6: from the empty plan, no assignment list holds a kid id twice
C6_NoDuplicateAssignments ==
    \A i \in 1..Len(plan.assignments) :
        \A m, n \in 1..Len(plan.assignments[i].kids) :
            m # n => plan.assignments[i].kids[m] # plan.assignments[i].kids[n]

\* a kid has been removed from a list of two and the other kid is still in it
C6_Witness ==
    /\ lastOp.op = "toggleAssignment"
    /\ lastOp.res = "unassigned"
    /\ Len(AssignedTo(plan.assignments, lastOp.act)) = 1

\* C7: for a grade expression that is one range clause LEFT dash RIGHT, LEFT
\* one or more grade tokens separated by "/" and RIGHT one grade token,
\* isKidEligibleFor is true exactly for the kids whose grade lies from the
\* lowest grade of LEFT to the grade of RIGHT
C7_RangeEligibility ==
    (probe.fn = "isKidEligibleFor" /\ probe.form = "range") =>
        LET level == CHOOSE i \in 1..9 : GradeLevels[i] = probe.kid.grade
        IN  probe.result =
                ( /\ SetMin(Range(probe.range.left)) <= level
                  /\ level <= probe.range.right )

\* the expression I4/I5, en dash, 2nd has admitted a kid of grade I4
C7_Witness ==
    /\ probe.fn = "isKidEligibleFor"
    /\ probe.form = "range"
    /\ probe.activity.grades = <<"I","4","/","I","5",EnDash,"2","n","d">>
    /\ probe.kid.grade = <<"I","4">>
    /\ probe.result

\* C8: for a grade expression that is empty or holds blanks, separators and
\* parenthetical notes alone, isKidEligibleFor is true for every kid; for an
\* expression with a clause and no grade token it is false for every kid
C8_UnspecifiedDefault ==
    (probe.fn = "isKidEligibleFor" /\ probe.form = "unspecified") =>
        probe.result = (\A i \in 1..Len(probe.items) : probe.items[i] \in BlankItems)

\* an expression of a parenthetical note and separators has admitted a kid
C8_Witness ==
    /\ probe.fn = "isKidEligibleFor"
    /\ probe.form = "unspecified"
    /\ Len(probe.items) = MaxItems
    /\ <<"(","G","1",")">> \in Range(probe.items)
    /\ probe.items[1] # probe.items[2]
    /\ probe.result

\* C8 as stated: isKidEligibleFor is true for every kid whenever the grade
\* expression holds no grade token
C8_AsStated ==
    (probe.fn = "isKidEligibleFor" /\ probe.form = "unspecified") => probe.result

\* C9: the materials total of every kid is the sum, over the materials keys
\* of the activities the kid is assigned to, of the fee of the key, each key
\* once; two activities of key unicor-english and fee 40 give 40
C9_MaterialsDedup ==
    plan.shape = "plan" =>
        \A n \in BOOLEAN : \A k \in KidIds(plan) :
            LET charged == {i \in ActivitiesOf(plan, k) :
                               ACTIVITIES[i].materialsFee # 0 /\ ACTIVITIES[i].materialsKey # ""}
                keys == {ACTIVITIES[i].materialsKey : i \in charged}
                materials == computeFinancials(plan, n).perKid[k].materials
            IN  /\ materials = SumOfFees(keys)
                /\ keys = {"unicor-english"} => materials = 40

\* a kid is assigned to two activities of key unicor-english
C9_Witness ==
    \E k \in KidIds(plan) :
        /\ {FindActivity("m_en_i4-2_mon"), FindActivity("m_en_i4-2_wed")} \subseteq ActivitiesOf(plan, k)
        /\ computeFinancials(plan, TRUE).perKid[k].materials = 40

\* C10: the term total of every kid is the prices of the per-term activities
\* outside the bundle the kid is assigned to, plus 0, 75 or 135 for no, one
\* or two and more bundle activities
C10_BundlePricing ==
    plan.shape = "plan" =>
        \A n \in BOOLEAN : \A k \in KidIds(plan) :
            LET bundle == {i \in ActivitiesOf(plan, k) : ACTIVITIES[i].bundleKey = "psychomotricity"}
                others == {i \in ActivitiesOf(plan, k) :
                              ACTIVITIES[i].bundleKey # "psychomotricity" /\ ACTIVITIES[i].period = "term"}
                term == computeFinancials(plan, n).perKid[k].term
            IN  term - SumOfPrices(others) =
                    (IF Cardinality(bundle) = 0 THEN 0
                     ELSE IF Cardinality(bundle) = 1 THEN 75 ELSE 135)

\* a kid is assigned to both bundle activities and is charged 135 for them
C10_Witness ==
    \E k \in KidIds(plan) :
        /\ ActivitiesOf(plan, k) = {FindActivity("a_psy_mo"), FindActivity("a_psy_th")}
        /\ computeFinancials(plan, FALSE).perKid[k].term = 135

\* C11: each per-term assignment outside the bundle of price p adds p to the
\* term total of the kid under both values of normalizeMonthly, p/3 to the
\* monthly total when normalizeMonthly is true and nothing to it when false;
\* term and materials totals are the same under both values
C11_TermNormalization ==
    plan.shape = "plan" =>
        \A k \in KidIds(plan) :
            LET T == computeFinancials(plan, TRUE).perKid[k]
                F == computeFinancials(plan, FALSE).perKid[k]
                bundle == {i \in ActivitiesOf(plan, k) : ACTIVITIES[i].bundleKey = "psychomotricity"}
                terms == {i \in ActivitiesOf(plan, k) :
                             ACTIVITIES[i].bundleKey # "psychomotricity" /\ ACTIVITIES[i].period = "term"}
                months == {i \in ActivitiesOf(plan, k) :
                              ACTIVITIES[i].bundleKey # "psychomotricity" /\ ACTIVITIES[i].period = "month"}
                bundleTerm == IF bundle = {} THEN 0 ELSE IF Cardinality(bundle) = 1 THEN 75 ELSE 135
            IN  /\ T.term = F.term
                /\ T.materials = F.materials
                /\ F.term = SumOfPrices(terms) + bundleTerm
                /\ F.monthly = SumOfPrices(months)
                /\ 3 * (T.monthly - F.monthly) = SumOfPrices(terms) + bundleTerm

\* a kid whose one assignment is a per-term activity of price 75 has 25 a
\* month when normalized and 0 when not
C11_Witness ==
    \E k \in KidIds(plan) :
        /\ ActivitiesOf(plan, k) = {FindActivity("a_futsal_mo")}
        /\ ACTIVITIES[FindActivity("a_futsal_mo")].price = 75
        /\ computeFinancials(plan, TRUE).perKid[k].monthly = 25
        /\ computeFinancials(plan, TRUE).perKid[k].term = 75
        /\ computeFinancials(plan, FALSE).perKid[k].monthly = 0

\* the records of listConflicts for the kid, Monday and the slot of the probe
ProbeRecords ==
    SelectSeq(probe.conflicts,
              LAMBDA c : c.kidId = "k1" /\ c.day = "Monday" /\ c.slot = probe.slot)

\* C12: for a kid assigned to two activities of one day and slot,
\* listConflicts returns exactly one record for that kid, day and slot when
\* both activities have no time, and none when both have times that parse
\* and do not overlap
C12_ConflictDetection ==
    (probe.fn = "listConflicts") =>
        /\ Len(probe.conflicts) = Len(ProbeRecords)
        /\ (probe.timeX.kind = "absent" /\ probe.timeY.kind = "absent") =>
               /\ Len(ProbeRecords) = 1
               /\ ProbeRecords[1].a.id = "x"
               /\ ProbeRecords[1].b.id = "y"
        /\ ( /\ probe.timeX.kind = "range"
             /\ probe.timeY.kind = "range"
             /\ (probe.timeX.end <= probe.timeY.start \/ probe.timeY.end <= probe.timeX.start) )
           => Len(ProbeRecords) = 0

\* two activities without a time have given one record
C12_Witness ==
    /\ probe.fn = "listConflicts"
    /\ probe.timeX.kind = "absent"
    /\ probe.timeY.kind = "absent"
    /\ Len(probe.conflicts) = 1

\* C13: overlap(a, b) is true exactly when the later start is before the
\* earlier end; ranges that touch at an endpoint do not overlap
C13_HalfOpenOverlap ==
    (probe.fn = "overlap") =>
        probe.result = ( /\ probe.a[1] < probe.a[2]
                         /\ probe.a[1] < probe.b[2]
                         /\ probe.b[1] < probe.a[2]
                         /\ probe.b[1] < probe.b[2] )

\* 12:30 to 13:30 and 13:30 to 14:30 do not overlap
C13_Witness ==
    /\ probe.fn = "overlap"
    /\ probe.a = <<750, 810>>
    /\ probe.b = <<810, 870>>
    /\ ~probe.result

\* C14: overlap(X, Y) equals overlap(Y, X) for all ranges, those whose start
\* is not before their end included
C14_OverlapSymmetry ==
    (probe.fn = "overlap") => (probe.result = probe.swapped)

\* a range that ends before it starts has been compared with one that
\* starts before it ends
C14_Witness ==
    /\ probe.fn = "overlap"
    /\ probe.a[1] > probe.a[2]
    /\ probe.b[1] < probe.b[2]
    /\ probe.result = probe.swapped

\* the start and end a time field stands for in a slot: its own, or those of
\* the slot (12:30 to 14:40 at midday, 16:30 to 18:00 in the afternoon)
ProbeStart(time) ==
    IF time.kind = "range" THEN time.start ELSE IF probe.slot = "Midday" THEN 750 ELSE 990

ProbeEnd(time) ==
    IF time.kind = "range" THEN time.end ELSE IF probe.slot = "Midday" THEN 880 ELSE 1080

\* C20: for a kid assigned to two activities of one day and slot, a time
\* that parseTimeRange cannot parse on either side always gives a conflict
\* record for the pair, whatever the other time; an activity without a time
\* is compared by the range of its slot
C20_ConservativeParseFailure ==
    (probe.fn = "listConflicts") =>
        /\ (probe.timeX.kind = "malformed" \/ probe.timeY.kind = "malformed") =>
               /\ Len(ProbeRecords) = 1
               /\ ProbeRecords[1].a.id = "x"
               /\ ProbeRecords[1].b.id = "y"
        /\ (probe.timeX.kind # "malformed" /\ probe.timeY.kind # "malformed") =>
               Len(ProbeRecords) =
                   (IF /\ ProbeStart(probe.timeX) < ProbeEnd(probe.timeY)
                       /\ ProbeStart(probe.timeY) < ProbeEnd(probe.timeX)
                    THEN 1 ELSE 0)

\* a time that does not parse beside a range that does has given a record
C20_Witness ==
    /\ probe.fn = "listConflicts"
    /\ probe.timeX.kind = "malformed"
    /\ probe.timeY.kind = "range"
    /\ Len(probe.conflicts) = 1

\* a text that is no plan document: not JSON, or JSON without a kids list or
\* without an assignments map
NotAPlanDocument(doc) ==
    \/ doc.kind = "text"
    \/ doc.kind = "json" /\ (MemberAt(doc.json, "kids") = 0 \/ MemberAt(doc.json, "assignments") = 0)

\* C15: importing a text that is no plan document leaves the active plan and
\* the persisted document as they were and does not crash the session
C15_MalformedImport ==
    [][\A f \in SessionDocs \cup OldSchemaDocs :
          (NotAPlanDocument(f) /\ ImportPlan(f))
          => (plan' = plan /\ stored' = stored /\ ~crashed')]_vars

\* C16: when the stored document is missing, is not JSON or has not the shape
\* of a plan, the session starts with the empty plan and does not crash
C16_CorruptedStoredDocument ==
    (lastOp.op = "mount" /\ (stored.kind = "absent" \/ NotAPlanDocument(stored)))
        => (plan = EmptyPlan /\ ~crashed)

\* p with exactly the kids that have no grade given the grade "1st"
WithFirstGrade(p, q) ==
    /\ q.shape = p.shape
    /\ q.assignments = p.assignments
    /\ Len(q.kids) = Len(p.kids)
    /\ \A i \in 1..Len(p.kids) :
          /\ q.kids[i].id = p.kids[i].id
          /\ q.kids[i].name = p.kids[i].name
          /\ q.kids[i].color = p.kids[i].color
          /\ q.kids[i].grade = IF p.kids[i].grade = NoGrade THEN <<"1", "s", "t">>
                               ELSE p.kids[i].grade

\* p has a kid whose record holds no grade
KidWithoutGrade(p) ==
    p.shape = "plan" /\ \E i \in 1..Len(p.kids) : p.kids[i].grade = NoGrade

\* C17: a run of the plan effect on a plan with a kid without grade replaces
\* the plan by the one where exactly those kids are in "1st" and writes
\* nothing; the plan that results needs no migration and is persisted
\* eventually; no document with a kid without grade is ever written
C17_GradeMigration ==
    /\ [][(PlanEffect /\ KidWithoutGrade(plan))
             => (/\ WithFirstGrade(plan, plan')
                 /\ ~KidWithoutGrade(plan')
                 /\ stored' = stored
                 /\ effectPending')]_vars
    /\ [][stored' # stored
             => (stored'.kind = "json" /\ ~KidWithoutGrade(JSONparse(stored')))]_vars
    /\ ((~crashed /\ KidWithoutGrade(plan))
           ~> (~effectPending /\ ~KidWithoutGrade(plan) /\ JSONparse(stored) = plan))

\* a session that started on a document with a graded kid and a kid without
\* grade holds the migrated plan, persisted
C17_Witness ==
    /\ lastOp = Idle
    /\ ~effectPending
    /\ JSONparse(stored) = plan
    /\ \E i, j \in 1..Len(plan.kids) :
          /\ plan.kids[i].grade = <<"1", "s", "t">>
          /\ plan.kids[j].grade = <<"3", "r", "d">>

\* C18: the exported document parses to the plan it was exported from, kids
\* and assignment lists in their order, and importing it makes exactly that
\* the active plan, whatever plan the session held
C18_ExportImportRoundTrip ==
    /\ lastOp.op = "exportPlan" => JSONparse(exported) = plan
    /\ lastOp.op = "importPlan"
          => (lastOp.res = "replaced" /\ ~crashed /\ plan = JSONparse(exported))

\* a plan of two kids and two assignment entries was imported into a
\* session whose plan, still the persisted one, had other kids and entries
C18_Witness ==
    /\ lastOp.op = "importPlan"
    /\ plan = JSONparse(exported)
    /\ Len(plan.kids) = 2
    /\ Len(plan.assignments) = 2
    /\ stored.kind = "json"
    /\ LET old == JSONparse(stored)
       IN  /\ old.kids # <<>>
           /\ old.kids[1].id # plan.kids[1].id
           /\ old.assignments # <<>>
           /\ old.assignments # plan.assignments

\* C19: whenever a handler can run, the persisted document is the current
\* plan, so no mutation starts from a plan that differs from the persisted
\* one; what is written is always the plan of that moment; and after every
\* change of the plan the effect comes to rest with the plan persisted
C19_PersistenceAfterMutation ==
    /\ [](Accepting => (stored.kind = "json" /\ JSONparse(stored) = plan))
    /\ [][stored' # stored
             => (stored'.kind = "json" /\ JSONparse(stored') = plan /\ plan' = plan)]_vars
    /\ ((~crashed /\ effectPending) ~> (Accepting /\ JSONparse(stored) = plan))

\* the effect has saved a plan with a kid and an assignment entry
C19_Witness ==
    /\ Accepting
    /\ lastOp = Idle
    /\ plan.kids # <<>>
    /\ plan.assignments # <<>>
    /\ JSONparse(stored) = plan

\* the place of a record in the order of listConflicts: the kid's place in
\* the kids list, the day, the slot, and the places of a and b in the catalog
RecordKey(c) ==
    <<CHOOSE i \in 1..Len(plan.kids) : plan.kids[i].id = c.kidId,
      CHOOSE d \in 1..5 : <<"Monday", "Tuesday", "Wednesday", "Thursday", "Friday">>[d] = c.day,
      CHOOSE s \in 1..2 : <<"Midday", "Afternoon">>[s] = c.slot,
      CHOOSE n \in 1..Len(ACTIVITIES) : ACTIVITIES[n].id = c.a.id,
      CHOOSE n \in 1..Len(ACTIVITIES) : ACTIVITIES[n].id = c.b.id>>

\* lexicographic order of keys
KeyBefore(x, y) ==
    \E n \in 1..Len(x) : x[n] < y[n] /\ \A m \in 1..(n - 1) : x[m] = y[m]

\* C21: in every record of listConflicts a and b are distinct activities of
\* the record's day and slot, both assigned to the record's kid, a before b
\* in the catalog; no kid, a and b come twice; and the records are in the
\* order of kid, day, slot and catalog pair
C21_ConflictEnumeration ==
    (probe.fn = "listConflicts") =>
        /\ \A i \in 1..Len(probe.conflicts) :
              LET c == probe.conflicts[i]
              IN  /\ c.a.id # c.b.id
                  /\ c.a.day = c.day /\ c.b.day = c.day
                  /\ c.a.slot = c.slot /\ c.b.slot = c.slot
                  /\ \E k \in 1..Len(plan.kids) : plan.kids[k].id = c.kidId
                  /\ \A x \in {c.a.id, c.b.id} :
                        \E e \in 1..Len(plan.assignments) :
                            plan.assignments[e].id = x /\ c.kidId \in Range(plan.assignments[e].kids)
                  /\ RecordKey(c)[4] < RecordKey(c)[5]
        /\ \A i, j \in 1..Len(probe.conflicts) :
              i < j => /\ <<probe.conflicts[i].kidId, probe.conflicts[i].a.id, probe.conflicts[i].b.id>>
                            # <<probe.conflicts[j].kidId, probe.conflicts[j].a.id, probe.conflicts[j].b.id>>
                       /\ KeyBefore(RecordKey(probe.conflicts[i]), RecordKey(probe.conflicts[j]))

\* records of two kids, two days and two slots, the second kid of the kids
\* list being the first of the assignment lists
C21_Witness ==
    /\ probe.fn = "listConflicts"
    /\ plan.kids[1].id = "k1"
    /\ plan.assignments[1].id = "a_lettering_we"
    /\ {probe.conflicts[i].kidId : i \in 1..Len(probe.conflicts)} = {"k1", "k2"}
    /\ {probe.conflicts[i].day : i \in 1..Len(probe.conflicts)} = {"Monday", "Wednesday"}
    /\ {probe.conflicts[i].slot : i \in 1..Len(probe.conflicts)} = {"Midday", "Afternoon"}
    /\ Len(probe.conflicts) >= 8

\* C22: for an expression of several clauses isKidEligibleFor is true
\* exactly when one of the clauses admits the grade of the kid; a clause
\* with a token that is no grade, a range end that is no grade or two
\* dashes admits no grade and the other clauses still count
C22_ClauseDisjunction ==
    (probe.fn = "isKidEligibleFor" /\ probe.form = "clauses") =>
        (probe.result <=>
            \E i \in 1..Len(probe.items) :
                \E l \in probe.items[i].admits :
                    probe.kid.grade = << <<"I","3">>, <<"I","4">>, <<"I","5">>,
                                         <<"1","s","t">>, <<"2","n","d">>, <<"3","r","d">>,
                                         <<"4","t","h">>, <<"5","t","h">>, <<"6","t","h">> >>[l])

\* a kid is admitted by the second clause, the first being a clause of two
\* dashes, followed by a note and the word "and"
C22_Witness ==
    /\ probe.fn = "isKidEligibleFor"
    /\ probe.form = "clauses"
    /\ probe.result
    /\ Len(probe.items[1].text) = 11
    /\ probe.items[1].admits = {}
    /\ probe.kid.grade = <<"2","n","d">>
    /\ Len(probe.activity.grades) > 30

\* the plan with the entries of its assignment map in another order
Reordered(p) ==
    {PlanState(p.kids, [i \in 1..Len(p.assignments) |-> p.assignments[f[i]]]) :
        f \in {g \in [1..Len(p.assignments) -> 1..Len(p.assignments)] :
                  \A i, j \in 1..Len(p.assignments) : i # j => g[i] # g[j]}}

\* C23: with and without normalization, the three totals of
\* computeFinancials are the sums of the monthly, term and materials values
\* of the kids of the plan, and they are the same for every order of the
\* entries of the assignment map
C23_GrandTotals ==
    plan.shape = "plan" =>
        \A n \in BOOLEAN :
            LET F == computeFinancials(plan, n)
                Of(i) == F.perKid[plan.kids[i].id]
            IN  /\ F.totalMonthly = SumSeq([i \in 1..Len(plan.kids) |-> Of(i).monthly])
                /\ F.totalTerm = SumSeq([i \in 1..Len(plan.kids) |-> Of(i).term])
                /\ F.totalMaterials = SumSeq([i \in 1..Len(plan.kids) |-> Of(i).materials])
                /\ \A q \in Reordered(plan) :
                      LET G == computeFinancials(q, n)
                      IN  /\ G.totalMonthly = F.totalMonthly
                          /\ G.totalTerm = F.totalTerm
                          /\ G.totalMaterials = F.totalMaterials

\* two kids are both in English of Monday and in futsal: 166 a month
\* normalized, 150 a term and 80 of materials in all
C23_Witness ==
    /\ Len(plan.kids) = 2
    /\ Len(plan.assignments) = 2
    /\ plan.assignments[1].id = "a_futsal_mo"
    /\ computeFinancials(plan, TRUE).totalMonthly = 166
    /\ computeFinancials(plan, FALSE).totalMonthly = 116
    /\ computeFinancials(plan, TRUE).totalTerm = 150
    /\ computeFinancials(plan, TRUE).totalMaterials = 80

\* the plan without the entries of ids that are not in the catalog and
\* without the ids, in the lists, of kids that are not in the kids list
WithoutDangling(p) ==
    LET known == SelectSeq(p.assignments,
                           LAMBDA e : \E n \in 1..Len(ACTIVITIES) : ACTIVITIES[n].id = e.id)
    IN  PlanState(p.kids,
                  [i \in 1..Len(known) |->
                      [id |-> known[i].id,
                       kids |-> SelectSeq(known[i].kids,
                                          LAMBDA k : \E j \in 1..Len(p.kids) : p.kids[j].id = k)]])

\* C25: computeFinancials has one perKid entry for each kid of the kids list
\* and none for another id, and its per-kid values and totals are those of
\* the plan without the entries of unknown activities and without the ids
\* of unknown kids
C25_DanglingReferences ==
    plan.shape = "plan" =>
        \A n \in BOOLEAN :
            LET F == computeFinancials(plan, n)
                G == computeFinancials(WithoutDangling(plan), n)
            IN  /\ DOMAIN F.perKid = {plan.kids[i].id : i \in 1..Len(plan.kids)}
                /\ Cardinality(DOMAIN F.perKid) = Len(plan.kids)
                /\ F.perKid = G.perKid
                /\ F.totalMonthly = G.totalMonthly
                /\ F.totalTerm = G.totalTerm
                /\ F.totalMaterials = G.totalMaterials

\* a plan of one kid holds an entry of an unknown activity that names the
\* kid and an entry of a bundle activity that names the kid and an unknown id
C25_Witness ==
    /\ Len(plan.kids) = 1
    /\ Len(plan.assignments) = 2
    /\ plan.assignments[1].id = "zz_not_in_catalog"
    /\ plan.assignments[1].kids = <<"k2", "k1">>
    /\ plan.assignments[2].id = "a_psy_mo"
    /\ plan.assignments[2].kids = <<"k2", "k1">>
    /\ plan.kids[1].id = "k1"
    /\ WithoutDangling(plan).assignments = <<[id |-> "a_psy_mo", kids |-> <<"k1">>]>>
    /\ computeFinancials(plan, TRUE).totalTerm = 75
    /\ computeFinancials(plan, TRUE).totalMonthly = 25

CountOn(k, day, slot) ==
    Cardinality({n \in 1..Len(ACTIVITIES) :
        /\ ACTIVITIES[n].day = day
        /\ ACTIVITIES[n].slot = slot
        /\ \E e \in 1..Len(plan.assignments) :
              plan.assignments[e].id = ACTIVITIES[n].id /\ k \in Range(plan.assignments[e].kids)})

\* C26: in a plan reached from the empty plan, listConflicts is empty exactly
\* when no kid has two activities of one day and slot, and a kid with n
\* activities of a day and slot has n(n-1)/2 records for it
C26_CatalogConflicts ==
    LET days == {"Monday", "Tuesday", "Wednesday", "Thursday", "Friday"}
        slots == {"Midday", "Afternoon"}
        L == listConflicts(plan)
    IN  /\ (L = <<>>) <=>
               \A i \in 1..Len(plan.kids) : \A d \in days, s \in slots :
                   CountOn(plan.kids[i].id, d, s) <= 1
        /\ \A i \in 1..Len(plan.kids) : \A d \in days, s \in slots :
               LET n == CountOn(plan.kids[i].id, d, s)
               IN  2 * Cardinality({j \in 1..Len(L) :
                           L[j].kidId = plan.kids[i].id /\ L[j].day = d /\ L[j].slot = s})
                       = n * (n - 1)

\* a kid with the three activities of Wednesday midday and the one of Monday
\* midday has three records, another kid with two of Wednesday has one
C26_Witness ==
    /\ Len(plan.kids) = 2
    /\ CountOn("k1", "Wednesday", "Midday") = 3
    /\ CountOn("k1", "Monday", "Midday") = 1
    /\ CountOn("k2", "Wednesday", "Midday") = 2
    /\ Len(listConflicts(plan)) = 4
    /\ lastOp.op = "toggleAssignment"
====
